---- MODULE Spec2Model ----
(***************************************************************************)
(* Model of gdnative-core/src/export/class.rs: the NativeClass,            *)
(* NativeClassMethods and OwnerArg traits.                                 *)
(*                                                                         *)
(* The traits are generic; the model instantiates them with three script   *)
(* classes that differ in which default methods they override.  Items the  *)
(* file only calls (Instance::new, Instance::emplace, TRef::as_ref, the    *)
(* ClassBuilder and the library-initialisation driver) are modelled from   *)
(* their documented contracts.                                             *)
(***************************************************************************)
EXTENDS Integers, Sequences, FiniteSets, TLC

(* ---------------------------- bounds ----------------------------------- *)
MaxObjects == 2      \* foreign base objects that may be allocated
MaxCalls == 2        \* handler invocations delivered by the foreign runtime
MaxInits == 2        \* direct calls of NativeClass::init
MaxPropCalls == 2    \* calls of register_properties per class
MaxImplAttempts == 1 \* attempts to add an OwnerArg implementation

(* ------------------------ script classes ------------------------------- *)
\* The implementors of NativeClass in the modelled library.
Classes == {"A", "B", "C"}

\* Classes that provide their own `init`.
OverridesInit == {"B", "C"}

\* Classes that provide their own `register_properties`.
OverridesProps == {"B"}

\* fn class_name() -> &'static str
class_name(c) ==
  CASE c = "A" -> "Alpha"
    [] c = "B" -> "Beta"
    [] OTHER -> "Gamma"

\* The exported properties a class's own register_properties registers.
Properties(c) == IF c = "B" THEN <<"hp", "speed">> ELSE <<>>

\* The exported methods a class's `register` registers, in source order.
Methods(c) ==
  CASE c = "A" -> <<"run", "jump">>
    [] c = "B" -> <<"jump", "run">>
    [] OTHER -> <<"idle">>

\* Payloads a caller may hand to emplace.
EmplaceVals == {7, 9}

NoPayload == [src |-> "none", class |-> "none", val |-> 0]

(* ---------------------- access-capability tags ------------------------- *)
\* The implementors of ThreadAccess.
ThreadAccess == {"Shared", "ThreadLocal", "Unique"}

\* Tags under which no other thread can reach the object during a call.
NoConcurrentAccess == {"Unique", "ThreadLocal"}

\* TRef<'a, T, Access>: identity, tag, borrow lifetime (the call it is for).
TRef(id, access, lt) == [shape |-> "tref", id |-> id, access |-> access, lt |-> lt]

NoRef == [shape |-> "none", id |-> 0, access |-> "none", lt |-> 0]

(* ----------------------- NativeClass::init ----------------------------- *)
\* A class's own constructor: the payload records the owner it was given.
user_init(c, owner) ==
  [panic |-> FALSE,
   value |-> [src |-> "init", class |-> c, val |-> owner.id],
   msg |-> <<>>]

\* A plausible slip: the message names no class.
default_init_anonymous(c, owner) ==
  [panic |-> TRUE, value |-> NoPayload,
   msg |-> <<"class", " does not have a zero-argument constructor">>]

\* The default body: panic!("{} does not have a zero-argument constructor",
\* Self::class_name()).  The message is the sequence of its formatted parts.
default_init(c, owner) ==
  [panic |-> TRUE, value |-> NoPayload,
   msg |-> <<class_name(c), " does not have a zero-argument constructor">>]

\* Static dispatch of C::init.
init(c, owner) ==
  IF c \in OverridesInit THEN user_init(c, owner) ELSE default_init(c, owner)

(* ---------------------- the instance container ------------------------- *)
\* Instance::<C, Unique>::new(): attach init(owner) to the new base object.
Instance_new(c, id) ==
  LET r == init(c, TRef(id, "Shared", 0))
  IN [ok |-> ~r.panic,
      msg |-> r.msg,
      inits |-> 1,
      inst |-> [class |-> c, base |-> id, payload |-> r.value,
                access |-> "Unique"]]

\* Instance::<C, Unique>::emplace(payload): attach the given payload.
Instance_emplace(c, payload, id) ==
  [ok |-> TRUE,
   msg |-> <<>>,
   inits |-> 0,
   inst |-> [class |-> c, base |-> id, payload |-> payload,
             access |-> "Unique"]]

\* A plausible slip: the script is attached to an object that already exists.
new_instance_stale(c, id) == Instance_new(c, 1)

\* fn new_instance() -> Instance<Self, Unique> { Instance::new() }
new_instance(c, id) == Instance_new(c, id)

\* A plausible slip: emplace goes through the constructor path.
emplace_via_init(c, payload, id) == Instance_new(c, id)

\* fn emplace(self) -> Instance<Self, Unique> { Instance::emplace(self) }
emplace(c, payload, id) == Instance_emplace(c, payload, id)

(* ---------------------- registration builder ------------------------- *)
\* ClassBuilder: the recorded property and method registrations.
EmptyBuilder == [props |-> <<>>, methods |-> <<>>]

InSeq(s, x) == \E i \in 1..Len(s) : s[i] = x

\* ClassBuilder::add_property: registrations are keyed by class and name.
add_property(b, c, p) ==
  IF InSeq(b.props, <<c, p>>) THEN b
  ELSE [b EXCEPT !.props = Append(@, <<c, p>>)]

\* ClassBuilder::add_method: recorded in call order.
add_method(b, c, m) == [b EXCEPT !.methods = Append(@, <<c, m>>)]

RECURSIVE AddProperties(_, _, _)
AddProperties(b, c, ps) ==
  IF ps = <<>> THEN b
  ELSE AddProperties(add_property(b, c, Head(ps)), c, Tail(ps))

RECURSIVE AddMethods(_, _, _)
AddMethods(b, c, ms) ==
  IF ms = <<>> THEN b
  ELSE AddMethods(add_method(b, c, Head(ms)), c, Tail(ms))

\* A class's own register_properties: one add_property per exported property.
user_register_properties(c, b) == AddProperties(b, c, Properties(c))

\* A plausible slip: the default body records a registration of its own.
register_properties_recording(c, b) ==
  IF c \in OverridesProps THEN user_register_properties(c, b)
  ELSE [b EXCEPT !.props = Append(@, <<c, "script">>)]

\* fn register_properties(_builder: &ClassBuilder<Self>) {}
register_properties(c, b) ==
  IF c \in OverridesProps THEN user_register_properties(c, b) ELSE b

\* A plausible slip: methods are registered in reverse order.
register_reversed(c, b) ==
  LET ms == Methods(c)
  IN AddMethods(b, c, [i \in 1..Len(ms) |-> ms[Len(ms) + 1 - i]])

\* fn register(builder: &ClassBuilder<Self>): implemented by each class.
register(c, b) == AddMethods(b, c, Methods(c))

\* InitHandle::add_class::<C>(): the library-initialisation step for C.
add_class(c, b) == register(c, register_properties(c, b))

(* ------------------------------ OwnerArg ------------------------------- *)
\* The modules from which a further implementation may be attempted.
OutsideModules == {"gdnative_core::object", "user_crate"}

\* Types for which a further implementation may be attempted.
ThirdTypes == {"Ref"}

\* The owner-argument shapes a handler may try to declare.
OwnerShapes == {"bare", "tref"} \cup ThirdTypes

\* impl private::Sealed for &'a T; impl private::Sealed for TRef<'a, T, Access>
SealedImpls == {"bare", "tref"}

\* A plausible slip: `pub mod private`, nameable from anywhere.
SealedVisible_pub(module) == TRUE

\* `mod private { pub trait Sealed {} }`: the trait can be named only from
\* the module that declares `private` (and its descendants).
SealedVisible(module) ==
  module \in {"gdnative_core::export::class", "gdnative_core::export::class::private"}

\* A plausible slip: the bare shape is implemented for Unique only.
OwnerArgImpl_exclusive(shape, access, impls) ==
  /\ shape \in impls
  /\ access \in ThreadAccess
  /\ shape = "bare" => access = "Unique"

\* Is there an `impl OwnerArg<'a, T, Access> for shape`?  Both impls are
\* generic over every Access: ThreadAccess + 'static.
OwnerArgImpl(shape, access, impls) ==
  /\ shape \in impls
  /\ access \in ThreadAccess

\* TRef::as_ref(self) -> &'a T: the plain reference to the same object.
as_ref(owner) ==
  [shape |-> "bare", id |-> owner.id, access |-> "none", lt |-> owner.lt]

\* A plausible slip: the reference is taken to a different object.
from_safe_ref_bare_other(owner) ==
  [shape |-> "bare", id |-> owner.id + 1, access |-> "none", lt |-> owner.lt]

\* impl OwnerArg for &'a T: fn from_safe_ref(owner) -> Self { owner.as_ref() }
from_safe_ref_bare(owner) == as_ref(owner)

\* A plausible slip: the result claims exclusive access.
from_safe_ref_tref_upgraded(owner) == [owner EXCEPT !.access = "Unique"]

\* impl OwnerArg for TRef<'a, T, Access>: fn from_safe_ref(owner) -> Self { owner }
from_safe_ref_tref(owner) == owner

\* A plausible slip: the result is declared 'static (lifetime 0 never ends).
from_safe_ref_static(shape, owner) ==
  IF shape = "bare" THEN [from_safe_ref_bare(owner) EXCEPT !.lt = 0]
  ELSE [from_safe_ref_tref(owner) EXCEPT !.lt = 0]

\* OwnerArg::from_safe_ref(owner: TRef<'a, T, Access>) -> Self, dispatched on
\* Self.  A further implementor would return a value of its own shape.
from_safe_ref(shape, owner) ==
  CASE shape = "bare" -> from_safe_ref_bare(owner)
    [] shape = "tref" -> from_safe_ref_tref(owner)
    [] OTHER -> [owner EXCEPT !.shape = shape]

(* ---------------------------- the state -------------------------------- *)
VARIABLES
  phase,         \* "loading" | "ready" | "aborted"
  registered,    \* classes the library initialisation has added
  registerCalls, \* per class: calls of NativeClassMethods::register
  propCalls,     \* per class: calls of NativeClass::register_properties
  builder,       \* the ClassBuilder's recorded registrations
  nextId,        \* identity the foreign runtime gives the next base object
  instances,     \* the Instance handles returned so far, oldest first
  initCalls,     \* calls of NativeClass::init so far
  abortMsg,      \* the panic message, once aborted
  last,          \* the last constructor-path call and what it returned
  callCounter,   \* handler invocations delivered so far
  active,        \* handler invocations still running
  held,          \* converted owner arguments still borrowed
  lastConv,      \* the last owner-argument conversion
  ownerArgs,     \* the types that implement OwnerArg
  implAttempts,  \* attempts to add an implementation so far
  lastImpl       \* the last such attempt

vars == <<phase, registered, registerCalls, propCalls, builder, nextId,
          instances, initCalls, abortMsg, last, callCounter, active, held,
          lastConv, ownerArgs, implAttempts, lastImpl>>

regVars == <<registered, registerCalls, propCalls, builder>>
instVars == <<nextId, instances, initCalls, abortMsg, last>>
callVars == <<callCounter, active, held, lastConv>>
implVars == <<ownerArgs, implAttempts, lastImpl>>

NoCall == [op |-> "none", class |-> "none", arg |-> NoPayload,
           ret |-> NoPayload, initsBefore |-> 0]

Init ==
  /\ phase = "loading"
  /\ registered = {}
  /\ registerCalls = [c \in Classes |-> 0]
  /\ propCalls = [c \in Classes |-> 0]
  /\ builder = EmptyBuilder
  /\ nextId = 1
  /\ instances = <<>>
  /\ initCalls = 0
  /\ abortMsg = <<>>
  /\ last = NoCall
  /\ callCounter = 0
  /\ active = {}
  /\ held = {}
  /\ lastConv = [status |-> "none", shape |-> "none", in |-> NoRef, out |-> NoRef]
  /\ ownerArgs = SealedImpls
  /\ implAttempts = 0
  /\ lastImpl = [module |-> "none", ty |-> "none", status |-> "none"]

(* ------------------------ library initialisation ----------------------- *)
\* The initialisation adds each class once, in any order.
AddClass(c) ==
  /\ phase = "loading"
  /\ c \notin registered
  /\ builder' = add_class(c, builder)
  /\ registered' = registered \cup {c}
  /\ registerCalls' = [registerCalls EXCEPT ![c] = @ + 1]
  /\ propCalls' = [propCalls EXCEPT ![c] = @ + 1]
  /\ UNCHANGED <<phase, instVars, callVars, implVars>>

\* A further call of C::register_properties on the same builder.
CallRegisterProperties(c) ==
  /\ phase = "loading"
  /\ c \in registered
  /\ propCalls[c] < MaxPropCalls
  /\ builder' = register_properties(c, builder)
  /\ propCalls' = [propCalls EXCEPT ![c] = @ + 1]
  /\ UNCHANGED <<phase, registered, registerCalls, instVars, callVars, implVars>>

FinishInit ==
  /\ phase = "loading"
  /\ registered = Classes
  /\ phase' = "ready"
  /\ UNCHANGED <<regVars, instVars, callVars, implVars>>

(* --------------------------- constructors ------------------------------ *)
\* C::init(owner) called directly with a Shared reference to object id.
CallInit(c, id) ==
  /\ phase = "ready"
  /\ initCalls < MaxInits
  /\ id \in 1..(nextId - 1)
  /\ LET r == init(c, TRef(id, "Shared", 0))
     IN /\ initCalls' = initCalls + 1
        /\ last' = [op |-> "init", class |-> c, arg |-> NoPayload,
                    ret |-> r.value, initsBefore |-> initCalls]
        /\ phase' = IF r.panic THEN "aborted" ELSE phase
        /\ abortMsg' = r.msg
  /\ UNCHANGED <<regVars, nextId, instances, callVars, implVars>>

\* C::new_instance(): the foreign runtime allocates object nextId.
NewInstance(c) ==
  /\ phase = "ready"
  /\ nextId <= MaxObjects
  /\ LET r == new_instance(c, nextId)
     IN /\ nextId' = nextId + 1
        /\ initCalls' = initCalls + r.inits
        /\ last' = [op |-> "new_instance", class |-> c, arg |-> NoPayload,
                    ret |-> IF r.ok THEN r.inst.payload ELSE NoPayload,
                    initsBefore |-> initCalls]
        /\ instances' = IF r.ok
                        THEN Append(instances, [via |-> "new_instance", inst |-> r.inst])
                        ELSE instances
        /\ phase' = IF r.ok THEN phase ELSE "aborted"
        /\ abortMsg' = r.msg
  /\ UNCHANGED <<regVars, callVars, implVars>>

\* payload.emplace(): the foreign runtime allocates object nextId.
Emplace(c, v) ==
  /\ phase = "ready"
  /\ nextId <= MaxObjects
  /\ LET payload == [src |-> "user", class |-> c, val |-> v]
         r == emplace(c, payload, nextId)
     IN /\ nextId' = nextId + 1
        /\ initCalls' = initCalls + r.inits
        /\ last' = [op |-> "emplace", class |-> c, arg |-> payload,
                    ret |-> IF r.ok THEN r.inst.payload ELSE NoPayload,
                    initsBefore |-> initCalls]
        /\ instances' = IF r.ok
                        THEN Append(instances, [via |-> "emplace", inst |-> r.inst])
                        ELSE instances
        /\ phase' = IF r.ok THEN phase ELSE "aborted"
        /\ abortMsg' = r.msg
  /\ UNCHANGED <<regVars, callVars, implVars>>

(* --------------------------- handler calls ----------------------------- *)
Bases == {instances[i].inst.base : i \in 1..Len(instances)}

\* The foreign runtime calls an exported method of the script on object id,
\* delivering the owner as TRef<'a, T, access>; the method declares its owner
\* parameter with the given shape.  A shape with no OwnerArg implementation for
\* the tag does not compile, so no conversion takes place.
HandlerCall(id, access, shape) ==
  /\ phase = "ready"
  /\ callCounter < MaxCalls
  /\ id \in Bases
  /\ IF OwnerArgImpl(shape, access, ownerArgs)
     THEN LET k == callCounter + 1
              owner == TRef(id, access, k)
              out == from_safe_ref(shape, owner)
          IN /\ callCounter' = k
             /\ active' = active \cup {k}
             /\ held' = held \cup {[in |-> owner, out |-> out]}
             /\ lastConv' = [status |-> "ok", shape |-> shape,
                             in |-> owner, out |-> out]
     ELSE /\ lastConv' = [status |-> "rejected", shape |-> shape,
                          in |-> TRef(id, access, 0), out |-> NoRef]
          /\ UNCHANGED <<callCounter, active, held>>
  /\ UNCHANGED <<phase, regVars, instVars, implVars>>

\* The handler returns: every borrow whose lifetime is this call ends.
EndCall(k) ==
  /\ k \in active
  /\ active' = active \ {k}
  /\ held' = {h \in held : h.out.lt # k}
  /\ UNCHANGED <<phase, regVars, instVars, callCounter, lastConv, implVars>>

(* ------------------- further OwnerArg implementations ------------------ *)
\* `impl OwnerArg for ty` written in `module`: OwnerArg: private::Sealed, so
\* the author must also write `impl private::Sealed for ty`.
TryImplOwnerArg(module, ty) ==
  /\ implAttempts < MaxImplAttempts
  /\ implAttempts' = implAttempts + 1
  /\ IF SealedVisible(module)
     THEN /\ ownerArgs' = ownerArgs \cup {ty}
          /\ lastImpl' = [module |-> module, ty |-> ty, status |-> "accepted"]
     ELSE /\ ownerArgs' = ownerArgs
          /\ lastImpl' = [module |-> module, ty |-> ty, status |-> "rejected"]
  /\ UNCHANGED <<phase, regVars, instVars, callVars>>

(* --------------------------- specifications --------------------------- *)
\* Library initialisation: classes are added in any order.
NextReg ==
  \/ \E c \in Classes : AddClass(c)
  \/ \E c \in Classes : CallRegisterProperties(c)
  \/ FinishInit

SpecReg == Init /\ [][NextReg]_vars

\* The state once the library initialisation has added A, B and C.
Loaded ==
  /\ phase = "ready"
  /\ registered = Classes
  /\ registerCalls = [c \in Classes |-> 1]
  /\ propCalls = [c \in Classes |-> 1]
  /\ builder = add_class("C", add_class("B", add_class("A", EmptyBuilder)))
  /\ initCalls = 0
  /\ abortMsg = <<>>
  /\ last = NoCall
  /\ callCounter = 0
  /\ active = {}
  /\ held = {}
  /\ lastConv = [status |-> "none", shape |-> "none", in |-> NoRef, out |-> NoRef]
  /\ ownerArgs = SealedImpls
  /\ implAttempts = 0
  /\ lastImpl = [module |-> "none", ty |-> "none", status |-> "none"]

\* The constructor paths, on a loaded library with no instance yet.
InitInst ==
  /\ Loaded
  /\ nextId = 1
  /\ instances = <<>>

NextInst ==
  \/ \E c \in Classes, id \in 1..MaxObjects : CallInit(c, id)
  \/ \E c \in Classes : NewInstance(c)
  \/ \E c \in Classes, v \in EmplaceVals : Emplace(c, v)

SpecInst == InitInst /\ [][NextInst]_vars

\* Handler calls, on a loaded library with two script instances: object 1
\* made by B::new_instance(), object 2 by emplacing a C.
InitCall ==
  /\ Loaded
  /\ nextId = 3
  /\ instances =
       << [via |-> "new_instance", inst |-> Instance_new("B", 1).inst],
          [via |-> "emplace",
           inst |-> Instance_emplace("C", [src |-> "user", class |-> "C", val |-> 7], 2).inst] >>

NextCall ==
  \/ \E id \in 1..(nextId - 1), a \in ThreadAccess, s \in OwnerShapes : HandlerCall(id, a, s)
  \/ \E k \in 1..MaxCalls : EndCall(k)
  \/ \E m \in OutsideModules, t \in ThirdTypes : TryImplOwnerArg(m, t)

SpecCall == InitCall /\ [][NextCall]_vars

(* ------------------------------ claims --------------------------------- *)
PanicMessage(c) == <<class_name(c), " does not have a zero-argument constructor">>

LastInstance == instances[Len(instances)]

\* C1: for a class that does not override init, the zero-argument
\* construction path (init called directly, or through new_instance) returns
\* no payload: it aborts, and the abort message is
\* "<class_name> does not have a zero-argument constructor".
C1_DefaultInitAborts ==
  (last.op \in {"init", "new_instance"} /\ last.class \notin OverridesInit) =>
    /\ phase = "aborted"
    /\ last.ret = NoPayload
    /\ InSeq(abortMsg, class_name(last.class))
    /\ abortMsg = PanicMessage(last.class)
    /\ last.op = "new_instance" =>
         \A i \in 1..Len(instances) : instances[i].inst.base # nextId - 1

C1_Witness ==
  /\ last.op = "init"
  /\ last.class = "A"
  /\ phase = "aborted"
  /\ Len(instances) = 1

\* C2: for a class that overrides init, new_instance() after any earlier
\* new_instance/emplace calls returns a Unique instance whose payload is the
\* output of init on the new base object and whose base object differs from
\* the base object of every instance created before it.
C2_NewInstanceFresh ==
  /\ (last.op = "new_instance" /\ last.class \in OverridesInit) =>
       /\ phase = "ready"
       /\ Len(instances) >= 1
       /\ LastInstance.via = "new_instance"
       /\ LastInstance.inst.class = last.class
  /\ \A i \in 1..Len(instances) :
       instances[i].via = "new_instance" =>
         LET x == instances[i].inst
         IN /\ x.access = "Unique"
            /\ x.payload = init(x.class, TRef(x.base, "Shared", 0)).value
            /\ x.payload # NoPayload
            /\ \A j \in 1..(i - 1) : instances[j].inst.base # x.base

C2_Witness ==
  /\ Len(instances) = 2
  /\ instances[1].via = "emplace"
  /\ instances[2].via = "new_instance"
  /\ last.op = "new_instance"

\* C3: emplace(payload) never goes through init: for every class, also one
\* whose init aborts, it completes and returns a Unique instance holding
\* exactly the caller's payload, and no call of init happens during it.
C3_EmplaceSkipsInit ==
  last.op = "emplace" =>
    /\ phase = "ready"
    /\ initCalls = last.initsBefore
    /\ Len(instances) >= 1
    /\ LastInstance.via = "emplace"
    /\ LastInstance.inst.class = last.class
    /\ LastInstance.inst.payload = last.arg
    /\ LastInstance.inst.access = "Unique"

C3_Witness ==
  /\ last.op = "emplace"
  /\ last.class = "A"
  /\ phase = "ready"
  /\ LastInstance.inst.payload.val = 9

\* C4 as stated: the bare-reference shape is obtained only from a tag that
\* guarantees no concurrent foreign-side access; under any other tag
\* (Shared) the handler is rejected.
C4_BareOnlyWhenExclusive ==
  lastConv.shape = "bare" =>
    (lastConv.status = "ok" <=> lastConv.in.access \in NoConcurrentAccess)

\* C4 as amended: the bare-reference shape of from_safe_ref is implemented
\* for every access-capability tag, Shared included: a handler that declares
\* a bare owner is never rejected, whatever the tag of the delivered
\* reference.
C4_BareForEveryTag ==
  lastConv.shape = "bare" =>
    /\ lastConv.in.access \in ThreadAccess
    /\ lastConv.status = "ok"
    /\ lastConv.out.shape = "bare"

C4_Witness ==
  /\ lastConv.shape = "bare"
  /\ lastConv.in.access = "Shared"
  /\ lastConv.status = "ok"

\* C5: for the typed-reference shape from_safe_ref is the identity under
\* every tag: the result has the object identity and the tag of its input.
C5_TRefIdentity ==
  /\ (lastConv.status = "ok" /\ lastConv.shape = "tref") =>
       /\ lastConv.out = lastConv.in
       /\ lastConv.out.id = lastConv.in.id
       /\ lastConv.out.access = lastConv.in.access
  /\ \A h \in held :
       h.out.shape = "tref" =>
         h.out.id = h.in.id /\ h.out.access = h.in.access

C5_Witness ==
  /\ lastConv.status = "ok"
  /\ lastConv.shape = "tref"
  /\ lastConv.in.access = "Shared"
  /\ lastConv.in.id = 2

\* C6: for the bare-reference shape from_safe_ref drops the tag and keeps the
\* identity: under every tag the result refers to the object of its input.
C6_BareSameIdentity ==
  /\ (lastConv.status = "ok" /\ lastConv.shape = "bare") =>
       /\ lastConv.out.shape = "bare"
       /\ lastConv.out.access = "none"
       /\ lastConv.out.id = lastConv.in.id
  /\ \A h \in held : h.out.shape = "bare" => h.out.id = h.in.id

C6_Witness ==
  /\ lastConv.status = "ok"
  /\ lastConv.shape = "bare"
  /\ lastConv.in.access = "ThreadLocal"
  /\ lastConv.in.id = 2

\* C7: OwnerArg is closed: exactly the bare reference and the typed foreign
\* reference implement it, an implementation for a third type written
\* outside the defining module is rejected, and every value from_safe_ref
\* produces has one of the two shapes.
C7_OwnerArgSealed ==
  /\ ownerArgs = {"bare", "tref"}
  /\ lastImpl.status \in {"none", "rejected"}
  /\ lastConv.shape \in ThirdTypes => lastConv.status = "rejected"
  /\ lastConv.status = "ok" => lastConv.out.shape \in {"bare", "tref"}
  /\ \A h \in held : h.out.shape \in {"bare", "tref"}

C7_Witness ==
  /\ lastImpl.status = "rejected"
  /\ lastImpl.module = "user_crate"
  /\ lastConv.shape \in ThirdTypes
  /\ lastConv.status = "rejected"

\* C8: register_properties is idempotent: once it has been invoked for a
\* class, invoking it again leaves the builder's registrations as they are,
\* with no entry recorded twice; for a class that does not override it the
\* builder is unchanged by any number of calls.
PropsOf(c) ==
  LET own == SelectSeq(builder.props, LAMBDA e : e[1] = c)
  IN [i \in 1..Len(own) |-> own[i][2]]

C8_RegisterPropertiesIdempotent ==
  /\ \A c \in registered : register_properties(c, builder) = builder
  /\ \A c \in Classes \ OverridesProps :
       /\ register_properties(c, builder) = builder
       /\ PropsOf(c) = <<>>
  /\ \A c \in registered : PropsOf(c) = Properties(c)
  /\ \A i, j \in 1..Len(builder.props) :
       builder.props[i] = builder.props[j] => i = j

C8_Witness ==
  /\ propCalls["B"] = 2
  /\ propCalls["A"] = 2
  /\ Len(builder.props) = 2

\* C9: during library initialisation register is invoked exactly once per
\* class, and the methods of a class appear in the builder in the order in
\* which register registered them, whatever the order of the classes.
MethodsOf(c) ==
  LET own == SelectSeq(builder.methods, LAMBDA e : e[1] = c)
  IN [i \in 1..Len(own) |-> own[i][2]]

C9_RegisterOncePerClass ==
  /\ \A c \in Classes : registerCalls[c] = IF c \in registered THEN 1 ELSE 0
  /\ phase = "ready" => \A c \in Classes : registerCalls[c] = 1
  /\ \A c \in Classes :
       MethodsOf(c) = IF c \in registered THEN Methods(c) ELSE <<>>

C9_Witness ==
  /\ phase = "ready"
  /\ builder.methods[1][1] = "C"
  /\ builder.methods[Len(builder.methods)][1] = "A"

\* C10: a reference produced by from_safe_ref, in either shape, has the
\* lifetime 'a of the reference it was converted from: it is never still
\* borrowed after the handler call the input was delivered for has ended.
C10_SameLifetime ==
  /\ lastConv.status = "ok" => lastConv.out.lt = lastConv.in.lt
  /\ \A h \in held :
       /\ h.out.lt = h.in.lt
       /\ h.in.lt \in active

C10_Witness ==
  /\ lastConv.status = "ok"
  /\ lastConv.in.lt \notin active
  /\ callCounter = 2
  /\ Cardinality(held) = 1

====
